---------------------------- MODULE Spec2Model ----------------------------
(***************************************************************************)
(* roxy-engine: the markup parser (src/html.rs), the style parser          *)
(* (src/main.rs) and the document model (src/dom.rs).                      *)
(*                                                                         *)
(* A Rust String is modelled as a sequence of byte cells.  A one-byte      *)
(* character is one cell holding that character; the two-byte character   *)
(* Wide is the cell Wide followed by the cell Cont (its continuation       *)
(* byte).  A cursor `pos` is a 0-based byte offset, as in the source, so   *)
(* the cell at offset pos is input[pos + 1].                               *)
(*                                                                         *)
(* A call that can panic returns a record whose field ok is FALSE when it  *)
(* panics; pos is the value of Parser.pos at that moment.                  *)
(***************************************************************************)
EXTENDS Integers, Sequences, FiniteSets, TLC

\* ------------------------------------------------------------ characters

Wide == "U+00E9"
Cont == "cont"
NL == "\n"

Lower ==
    << "a", "b", "c", "d", "e", "f", "g", "h", "i", "j", "k", "l", "m",
       "n", "o", "p", "q", "r", "s", "t", "u", "v", "w", "x", "y", "z" >>
Upper ==
    << "A", "B", "C", "D", "E", "F", "G", "H", "I", "J", "K", "L", "M",
       "N", "O", "P", "Q", "R", "S", "T", "U", "V", "W", "X", "Y", "Z" >>
Digit == << "0", "1", "2", "3", "4", "5", "6", "7", "8", "9" >>

Range(s) == { s[i] : i \in DOMAIN s }

is_ascii_digit(c) == c \in Range(Digit)
is_ascii_alphanumeric(c) == c \in Range(Lower) \cup Range(Upper) \cup Range(Digit)
\* U+000B, U+0085 and the other non-ASCII White_Space characters have no cell
\* in the model, so the two classes coincide on it.
is_ascii_whitespace(c) == c \in { " ", "\t", NL, "\r", "\f" }
is_whitespace(c) == c \in { " ", "\t", NL, "\r", "\f" }

to_ascii_lowercase_char(c) ==
    IF c \in Range(Upper)
    THEN Lower[CHOOSE i \in DOMAIN Upper : Upper[i] = c]
    ELSE c
to_ascii_lowercase(s) == [ i \in DOMAIN s |-> to_ascii_lowercase_char(s[i]) ]

\* char::to_digit(16), as u8::from_str_radix uses it
is_hex_digit(c) ==
    \/ is_ascii_digit(c)
    \/ \E i \in 1..6 : c = Lower[i] \/ c = Upper[i]
hex_value(c) ==
    IF is_ascii_digit(c)
    THEN (CHOOSE i \in DOMAIN Digit : Digit[i] = c) - 1
    ELSE 9 + (CHOOSE i \in 1..6 : c = Lower[i] \/ c = Upper[i])

\* The closure passed to consume_while, as a tag:
\*   <<"is_whitespace">>, <<"is_ascii_alphanumeric">>, <<"identifier">>,
\*   <<"float">>, <<"ne", q>> (|c| c != q)
test(t, c) ==
    CASE t[1] = "is_whitespace" -> is_whitespace(c)
      [] t[1] = "is_ascii_alphanumeric" -> is_ascii_alphanumeric(c)
      [] t[1] = "identifier" -> is_ascii_alphanumeric(c) \/ c = "-"
      [] t[1] = "float" -> is_ascii_digit(c) \/ c = "."
      [] t[1] = "ne" -> c # t[2]

\* --------------------------------------------------------------- cursor

Ok(pos, val) == [ok |-> TRUE, pos |-> pos, val |-> val]
Panic(pos) == [ok |-> FALSE, pos |-> pos]

\* the rest of a function after a call that may panic
Bind(r, F(_)) == IF r.ok THEN F(r) ELSE Panic(r.pos)

\* str::is_char_boundary: what &input[pos..] needs in order not to panic
is_char_boundary(input, pos) ==
    \/ pos = 0
    \/ pos = Len(input)
    \/ pos < Len(input) /\ input[pos + 1] # Cont

\* number of bytes of the character whose first byte is at offset pos
len_utf8(input, pos) == IF input[pos + 1] = Wide THEN 2 ELSE 1

eof(input, pos) == pos >= Len(input)

\* self.input[self.pos..].chars().next().unwrap()
next_char(input, pos) ==
    IF is_char_boundary(input, pos) /\ pos < Len(input)
    THEN Ok(pos, input[pos + 1])
    ELSE Panic(pos)

\* self.input[self.pos..].starts_with(s)
starts_with(input, pos, s) ==
    IF is_char_boundary(input, pos)
    THEN Ok(pos, /\ pos + Len(s) <= Len(input)
                 /\ \A i \in 1..Len(s) : input[pos + i] = s[i])
    ELSE Panic(pos)

\* result.push(c): the character is appended in its UTF-8 encoding
string_push(result, c) ==
    IF c = Wide THEN result \o <<Wide, Cont>> ELSE Append(result, c)

\* char_indices(): the second item's offset is the first character's width;
\* when there is no second item the code adds 1.
consume_char(input, pos) ==
    IF is_char_boundary(input, pos) /\ pos < Len(input)
    THEN Ok(pos + (IF pos + len_utf8(input, pos) < Len(input)
                   THEN len_utf8(input, pos) ELSE 1),
            input[pos + 1])
    ELSE Panic(pos)

RECURSIVE consume_while_loop(_, _, _, _)
consume_while_loop(input, pos, t, result) ==
    IF eof(input, pos)
    THEN Ok(pos, result)
    ELSE Bind(next_char(input, pos), LAMBDA n :
         IF ~test(t, n.val)
         THEN Ok(pos, result)
         ELSE Bind(consume_char(input, pos), LAMBDA c :
              consume_while_loop(input, c.pos, t, string_push(result, c.val))))

consume_while(input, pos, t) == consume_while_loop(input, pos, t, <<>>)

consume_whitespace(input, pos) == consume_while(input, pos, <<"is_whitespace">>)

\* assert!(self.consume_char() == ch)
expect_char(input, pos, ch) ==
    Bind(consume_char(input, pos), LAMBDA c :
         IF c.val = ch THEN c ELSE Panic(c.pos))

\* ----------------------------------------------------------- style parser

None == [some |-> FALSE]
Some(x) == [some |-> TRUE, v |-> x]

parse_identifier(input, pos) == consume_while(input, pos, <<"identifier">>)

SingleSelectorDefault == [tag_name |-> None, id |-> None, classes |-> <<>>]

RECURSIVE parse_single_selector_loop(_, _, _)
parse_single_selector_loop(input, pos, selector) ==
    IF eof(input, pos)
    THEN Ok(pos, selector)
    ELSE
    Bind(consume_whitespace(input, pos), LAMBDA w :
    Bind(next_char(input, w.pos), LAMBDA n :
      IF n.val \in {"#", "."}
      THEN Bind(consume_char(input, w.pos), LAMBDA c :
           Bind(next_char(input, c.pos), LAMBDA a :
             IF ~is_ascii_alphanumeric(a.val) THEN Panic(c.pos)
             ELSE Bind(parse_identifier(input, c.pos), LAMBDA i :
                  parse_single_selector_loop(input, i.pos,
                    IF n.val = "#"
                    THEN [selector EXCEPT !.id = Some(i.val)]
                    ELSE [selector EXCEPT !.classes = Append(@, i.val)]))))
      ELSE IF n.val = "*"
      THEN Bind(consume_char(input, w.pos), LAMBDA c :
           Bind(next_char(input, c.pos), LAMBDA a :
             IF ~is_ascii_whitespace(a.val) THEN Panic(c.pos)
             ELSE parse_single_selector_loop(input, c.pos, selector)))
      ELSE IF n.val = "{" \/ ~is_ascii_alphanumeric(n.val)
      THEN Ok(w.pos, selector)
      ELSE Bind(parse_identifier(input, w.pos), LAMBDA i :
           parse_single_selector_loop(input, i.pos,
             [selector EXCEPT !.tag_name = Some(i.val)]))))

parse_single_selector(input, pos) ==
    parse_single_selector_loop(input, pos, SingleSelectorDefault)

\* s.parse::<f32>() accepts a run of digits and '.' iff it has a digit and at
\* most one '.'
is_float_literal(s) ==
    /\ Cardinality({ i \in DOMAIN s : s[i] = "." }) <= 1
    /\ \E i \in DOMAIN s : s[i] # "."

\* The value is kept as the literal.
parse_float(input, pos) ==
    Bind(consume_while(input, pos, <<"float">>), LAMBDA s :
         IF is_float_literal(s.val) THEN s ELSE Panic(s.pos))

\* a parse_unit that takes any identifier for a unit
parse_unit_any(input, pos) ==
    Bind(parse_identifier(input, pos), LAMBDA i : Ok(i.pos, "Px"))

parse_unit(input, pos) ==
    Bind(parse_identifier(input, pos), LAMBDA i :
         IF to_ascii_lowercase(i.val) = <<"p", "x">>
         THEN Ok(i.pos, "Px")
         ELSE Panic(i.pos))

parse_length(input, pos) ==
    Bind(parse_float(input, pos), LAMBDA f :
    Bind(parse_unit(input, f.pos), LAMBDA u :
         Ok(u.pos, [type |-> "Length", amount |-> f.val, unit |-> u.val])))

\* u8::from_str_radix(s, 16) of a two-byte s: an optional '+', then hex digits
from_str_radix(s) ==
    IF is_hex_digit(s[1]) /\ is_hex_digit(s[2])
    THEN [ok |-> TRUE, val |-> 16 * hex_value(s[1]) + hex_value(s[2])]
    ELSE IF s[1] = "+" /\ is_hex_digit(s[2])
    THEN [ok |-> TRUE, val |-> hex_value(s[2])]
    ELSE [ok |-> FALSE, val |-> 0]

\* &self.input[self.pos..self.pos + 2] panics unless both ends are character
\* boundaries inside the input; pos is advanced before the unwrap.
parse_hex_pair(input, pos) ==
    IF pos + 2 <= Len(input) /\ is_char_boundary(input, pos)
                             /\ is_char_boundary(input, pos + 2)
    THEN IF from_str_radix(SubSeq(input, pos + 1, pos + 2)).ok
         THEN Ok(pos + 2, from_str_radix(SubSeq(input, pos + 1, pos + 2)).val)
         ELSE Panic(pos + 2)
    ELSE Panic(pos)

parse_color(input, pos) ==
    Bind(expect_char(input, pos, "#"), LAMBDA h :
    Bind(parse_hex_pair(input, h.pos), LAMBDA r :
    Bind(parse_hex_pair(input, r.pos), LAMBDA g :
    Bind(parse_hex_pair(input, g.pos), LAMBDA b :
         Ok(b.pos, [type |-> "Color", rgba |-> <<r.val, g.val, b.val, 255>>])))))

parse_declaration_value(input, pos) ==
    Bind(next_char(input, pos), LAMBDA n :
      IF is_ascii_digit(n.val) THEN parse_length(input, pos)
      ELSE IF n.val = "#" THEN parse_color(input, pos)
      ELSE Bind(parse_identifier(input, pos), LAMBDA i :
           Ok(i.pos, [type |-> "Keyword", keyword |-> i.val])))

\* The style parser as a step machine.  c is the Parser of main.rs with the
\* locals of the calls in progress:
\*   pc            where the parse is: "rules" (head of the parse_rules loop),
\*                 "selectors" (head of the parse_selectors loop), "block"
\*                 (entry of parse_declarations), "decl" (head of its loop),
\*                 "value" (before parse_declaration_value), "decl_end" (after
\*                 it), "done" (parse returned), "panic"
\*   rules         parse_rules' Vec
\*   selectors     parse_selectors' Vec
\*   declarations  parse_declarations' Vec
\*   name          the identifier of the declaration being parsed
\* A step is written as a call that may panic and returns the next c.

css_parser(input) ==
    [input |-> input, pos |-> 0, pc |-> "rules", rules |-> <<>>,
     selectors |-> <<>>, declarations |-> <<>>, name |-> <<>>]

css_result(c, r) ==
    IF r.ok THEN [r.val EXCEPT !.pos = r.pos]
    ELSE [c EXCEPT !.pc = "panic", !.pos = r.pos]

\* while !self.eof() { rules.push(self.parse_rule()); ... }
parse_rules_step(c) ==
    IF eof(c.input, c.pos)
    THEN [c EXCEPT !.pc = "done"]
    ELSE [c EXCEPT !.pc = "selectors", !.selectors = <<>>]

Single(selector) == [type |-> "Single", selector |-> selector]

\* one iteration of the loop of parse_selectors
parse_selectors_step(c) ==
    css_result(c,
      Bind(parse_single_selector(c.input, c.pos), LAMBDA s :
      Bind(consume_whitespace(c.input, s.pos), LAMBDA w :
      Bind(next_char(c.input, w.pos), LAMBDA n :
        IF n.val = ","
        THEN Bind(consume_char(c.input, w.pos), LAMBDA k :
             Bind(consume_whitespace(c.input, k.pos), LAMBDA v :
                  Ok(v.pos, [c EXCEPT !.selectors = Append(@, Single(s.val))])))
        ELSE IF n.val = "{"
        THEN Ok(w.pos, [c EXCEPT !.selectors = Append(@, Single(s.val)),
                                 !.pc = "block"])
        ELSE Panic(w.pos)))))

\* assert!(self.consume_char() == '{'); let mut result = Vec::new();
parse_declarations_open(c) ==
    css_result(c,
      Bind(expect_char(c.input, c.pos, "{"), LAMBDA b :
           Ok(b.pos, [c EXCEPT !.pc = "decl", !.declarations = <<>>])))

\* parse_declarations returns; parse_rule builds the Rule; parse_rules pushes
\* it and skips the white space after it.
finish_rule(c, pos) ==
    Bind(consume_whitespace(c.input, pos), LAMBDA w :
         Ok(w.pos, [c EXCEPT !.pc = "rules",
                             !.rules = Append(@, [selectors |-> c.selectors,
                                                  declarations |-> c.declarations])]))

\* the head of the loop of parse_declarations, up to the declaration's value
parse_declarations_step(c) ==
    css_result(c,
      IF eof(c.input, c.pos)
      THEN finish_rule(c, c.pos)
      ELSE
      Bind(consume_whitespace(c.input, c.pos), LAMBDA w :
      Bind(next_char(c.input, w.pos), LAMBDA n :
        IF n.val = "}"
        THEN Bind(consume_char(c.input, w.pos), LAMBDA k : finish_rule(c, k.pos))
        ELSE Bind(parse_identifier(c.input, w.pos), LAMBDA i :
             Bind(consume_whitespace(c.input, i.pos), LAMBDA x :
             Bind(expect_char(c.input, x.pos, ":"), LAMBDA colon :
             Bind(consume_whitespace(c.input, colon.pos), LAMBDA y :
                  Ok(y.pos, [c EXCEPT !.pc = "value", !.name = i.val]))))))))

\* let value = self.parse_declaration_value(); result.push(Declaration {..});
parse_value_step(c) ==
    css_result(c,
      Bind(parse_declaration_value(c.input, c.pos), LAMBDA v :
           Ok(v.pos, [c EXCEPT !.pc = "decl_end",
                               !.declarations =
                                   Append(@, [name |-> c.name, value |-> v.val])])))

\* self.consume_whitespace(); assert!(self.consume_char() == ';');
parse_declaration_end(c) ==
    css_result(c,
      Bind(consume_whitespace(c.input, c.pos), LAMBDA w :
      Bind(expect_char(c.input, w.pos, ";"), LAMBDA s :
           Ok(s.pos, [c EXCEPT !.pc = "decl"]))))

css_step(c) ==
    CASE c.pc = "rules" -> parse_rules_step(c)
      [] c.pc = "selectors" -> parse_selectors_step(c)
      [] c.pc = "block" -> parse_declarations_open(c)
      [] c.pc = "decl" -> parse_declarations_step(c)
      [] c.pc = "value" -> parse_value_step(c)
      [] c.pc = "decl_end" -> parse_declaration_end(c)

RECURSIVE css_run(_)
css_run(c) == IF c.pc \in {"done", "panic"} THEN c ELSE css_run(css_step(c))

\* fn parse(input: String) -> StyleSheet
parse_returned(c) ==
    [ok |-> c.pc = "done", pos |-> c.pos, val |-> [rules |-> c.rules]]
css_parse(input) == parse_returned(css_run(css_parser(input)))

\* ------------------------------------------------------- document model

text(data) == [type |-> "TextNode", text |-> data]
element(tag_name, attrs, children) ==
    [type |-> "ElementNode", tag_name |-> tag_name, attributes |-> attrs,
     child_nodes |-> children]
comment(data) == [type |-> "CommentNode", text |-> data]

\* AttrMap: a function from the names to AttrValue
AttrMapDefault == <<>>
AttrText(v) == [kind |-> "Text", text |-> v]
AttrImplicit == [kind |-> "Implicit"]
insert(attributes, key, value) ==
    [ k \in DOMAIN attributes \cup {key} |->
        IF k = key THEN value ELSE attributes[k] ]

\* a load_css that puts the new sheet in front
push_sheet_front(stylesheets, sheet) ==
    [ok |-> sheet.ok,
     val |-> IF sheet.ok THEN <<sheet.val>> \o stylesheets ELSE stylesheets]

\* self.stylesheets.push(css::parse(styling))
push_sheet(stylesheets, sheet) ==
    [ok |-> sheet.ok,
     val |-> IF sheet.ok THEN Append(stylesheets, sheet.val) ELSE stylesheets]
load_css(stylesheets, styling) == push_sheet(stylesheets, css_parse(styling))

\* ---------------------------------------------------------- markup parser

parse_tag_name(input, pos) == consume_while(input, pos, <<"is_ascii_alphanumeric">>)

parse_text(input, pos) ==
    Bind(consume_while(input, pos, <<"ne", "<">>), LAMBDA t : Ok(t.pos, text(t.val)))

RECURSIVE parse_comment_loop(_, _, _)
parse_comment_loop(input, pos, result) ==
    Bind(consume_char(input, pos), LAMBDA c :
      IF c.val # "-"
      THEN parse_comment_loop(input, c.pos, string_push(result, c.val))
      ELSE Bind(starts_with(input, c.pos, <<"-", ">">>), LAMBDA s :
             IF s.val THEN Ok(c.pos, result)
             ELSE parse_comment_loop(input, c.pos, string_push(result, c.val))))

\* a parse_comment that drops the spaces of the text
parse_comment_trimmed(input, pos) ==
    Bind(starts_with(input, pos, <<"<", "!", "-", "-">>), LAMBDA s :
      IF ~s.val THEN Panic(pos)
      ELSE
      Bind(parse_comment_loop(input, pos + 4, <<>>), LAMBDA l :
      Bind(expect_char(input, l.pos, "-"), LAMBDA e :
      Bind(expect_char(input, e.pos, ">"), LAMBDA f :
           Ok(f.pos, comment(SelectSeq(l.val, LAMBDA ch : ch # " ")))))))

parse_comment(input, pos) ==
    Bind(starts_with(input, pos, <<"<", "!", "-", "-">>), LAMBDA s :
      IF ~s.val THEN Panic(pos)
      ELSE
      Bind(expect_char(input, pos, "<"), LAMBDA a :
      Bind(expect_char(input, a.pos, "!"), LAMBDA b :
      Bind(expect_char(input, b.pos, "-"), LAMBDA c :
      Bind(expect_char(input, c.pos, "-"), LAMBDA d :
      Bind(parse_comment_loop(input, d.pos, <<>>), LAMBDA l :
      Bind(expect_char(input, l.pos, "-"), LAMBDA e :
      Bind(expect_char(input, e.pos, ">"), LAMBDA f :
           Ok(f.pos, comment(l.val))))))))))

parse_attr_value(input, pos) ==
    Bind(consume_char(input, pos), LAMBDA open_quote :
      IF open_quote.val \notin {"\"", "'"} THEN Panic(open_quote.pos)
      ELSE
      Bind(consume_while(input, open_quote.pos, <<"ne", open_quote.val>>), LAMBDA value :
      Bind(expect_char(input, value.pos, open_quote.val), LAMBDA close :
           Ok(close.pos, value.val))))

\* the character after the name is consumed whether or not it is '='
parse_attr(input, pos) ==
    Bind(parse_tag_name(input, pos), LAMBDA n :
    Bind(consume_char(input, n.pos), LAMBDA c :
      IF c.val = "="
      THEN Bind(parse_attr_value(input, c.pos), LAMBDA value :
                Ok(value.pos, <<n.val, value.val>>))
      ELSE Ok(c.pos, <<n.val, <<>> >>)))

RECURSIVE parse_attributes_loop(_, _, _)
parse_attributes_loop(input, pos, attributes) ==
    Bind(consume_whitespace(input, pos), LAMBDA w :
    Bind(next_char(input, w.pos), LAMBDA next :
      IF next.val = ">" \/ next.val = "/"
      THEN Ok(w.pos, attributes)
      ELSE Bind(parse_attr(input, w.pos), LAMBDA a :
           parse_attributes_loop(input, a.pos,
             insert(attributes, a.val[1],
                    IF a.val[2] = <<>> THEN AttrText(a.val[2]) ELSE AttrImplicit)))))

parse_attributes(input, pos) == parse_attributes_loop(input, pos, AttrMapDefault)

\* parse_element up to its call of parse_nodes (or its return for a
\* self-closing element)
parse_element_open(input, pos) ==
    Bind(expect_char(input, pos, "<"), LAMBDA lt :
    Bind(parse_tag_name(input, lt.pos), LAMBDA tag_name :
    Bind(parse_attributes(input, tag_name.pos), LAMBDA attrs :
    Bind(consume_char(input, attrs.pos), LAMBDA next :
      IF next.val = "/"
      THEN Bind(expect_char(input, next.pos, ">"), LAMBDA gt :
                Ok(gt.pos, [self_closing |-> TRUE, tag_name |-> tag_name.val,
                            attrs |-> attrs.val]))
      ELSE IF next.val # ">" THEN Panic(next.pos)
      ELSE Ok(next.pos, [self_closing |-> FALSE, tag_name |-> tag_name.val,
                         attrs |-> attrs.val])))))

StyleTag == <<"s", "t", "y", "l", "e">>

\* if tag_name == "style" { let inner_node = children.first().unwrap(); ... }
forward_style(tag_name, children, stylesheets) ==
    IF tag_name # StyleTag THEN [ok |-> TRUE, val |-> stylesheets]
    ELSE IF children = <<>> THEN [ok |-> FALSE, val |-> stylesheets]
    ELSE IF children[1].type = "TextNode" THEN load_css(stylesheets, children[1].text)
    ELSE [ok |-> TRUE, val |-> stylesheets]

\* the four assertions on the closing tag
closing_tag(input, pos, tag_name) ==
    Bind(expect_char(input, pos, "<"), LAMBDA lt :
    Bind(expect_char(input, lt.pos, "/"), LAMBDA sl :
    Bind(parse_tag_name(input, sl.pos), LAMBDA n :
      IF n.val # tag_name THEN Panic(n.pos)
      ELSE expect_char(input, n.pos, ">"))))

with_sheets(r, stylesheets, node) ==
    [ok |-> r.ok, pos |-> r.pos, stylesheets |-> stylesheets, val |-> node]

after_style(sheets, input, pos, node) ==
    IF sheets.ok
    THEN with_sheets(closing_tag(input, pos, node.tag_name), sheets.val, node)
    ELSE with_sheets(Panic(pos), sheets.val, node)

\* parse_element after its call of parse_nodes returned `children`: the
\* style forwarding, then the closing tag
parse_element_close(input, pos, tag_name, attrs, children, stylesheets) ==
    after_style(forward_style(tag_name, children, stylesheets), input, pos,
                element(tag_name, attrs, children))

\* parse_node's dispatch
node_kind(input, pos) ==
    IF starts_with(input, pos, <<"<", "!", "-", "-">>).val THEN "comment"
    ELSE IF input[pos + 1] = "<" THEN "element"
    ELSE "text"

\* the head of the loop of parse_nodes: "break", or the kind of node
\* parse_node goes on to parse at the offset after the white space.  pos is on
\* a character boundary whenever a loop is at its head, so the head itself
\* does not panic.
head_kind(input, w) ==
    [pos |-> w.pos,
     kind |-> IF eof(input, w.pos) \/ starts_with(input, w.pos, <<"<", "/">>).val
              THEN "break"
              ELSE node_kind(input, w.pos)]
parse_nodes_head(input, pos) == head_kind(input, consume_whitespace(input, pos))

HtmlTag == <<"h", "t", "m", "l">>

\* an html::parse that wraps whatever it parsed
parse_result_wrapped(nodes) == element(HtmlTag, AttrMapDefault, nodes)

\* html::parse after parse_nodes returned
parse_result(nodes) ==
    IF Len(nodes) = 1
    THEN nodes[1]
    ELSE element(HtmlTag, AttrMapDefault, nodes)

\* impl fmt::Display for AttrMap.  A HashMap iterates in an unspecified
\* order: `order` lists the names in the order of this iteration.
attr_display(attributes, order) ==
    LET keys == SelectSeq(order, LAMBDA k : k \in DOMAIN attributes)
        item(k) == IF attributes[k].kind = "Text"
                   THEN k \o <<"=", "\"">> \o attributes[k].text \o <<"\"">>
                   ELSE k
        join[i \in 0..Len(keys)] ==
            IF i = 0 THEN <<>>
            ELSE IF i = 1 THEN item(keys[1])
            ELSE join[i - 1] \o <<" ">> \o item(keys[i])
    IN  join[Len(keys)]

RECURSIVE pretty_print(_, _, _)
pretty_print(node, indent, order) ==
    LET prepadding == [i \in 1..(2 * indent) |-> " "]
        children[i \in 0..Len(node.child_nodes)] ==
            IF i = 0 THEN <<>>
            ELSE children[i - 1] \o pretty_print(node.child_nodes[i], indent + 1, order)
    IN  CASE node.type = "ElementNode" ->
               prepadding \o <<"<">> \o node.tag_name
               \o (IF DOMAIN node.attributes # {}
                   THEN <<" ">> \o attr_display(node.attributes, order)
                   ELSE <<>>)
               \o (IF Len(node.child_nodes) = 0
                   THEN <<">", "<", "/">> \o node.tag_name \o <<">", NL>>
                   ELSE <<">", NL>> \o children[Len(node.child_nodes)]
                        \o prepadding \o <<"<", "/">> \o node.tag_name \o <<">", NL>>)
          [] node.type = "TextNode" -> prepadding \o node.text \o <<NL>>
          [] node.type = "CommentNode" ->
               prepadding \o <<"<", "!", "-", "-", " ">> \o node.text
               \o <<" ", "-", "-", ">", NL>>

\* impl fmt::Display for Node
to_string(node, order) == pretty_print(node, 0, order)

\* ------------------------------------------------------------- the inputs

MaxTokens == 3
MaxValueTokens == 2

\* the concatenations of at most k of the tokens
RECURSIVE Concats(_, _)
Concats(tokens, k) ==
    IF k = 0 THEN { <<>> }
    ELSE { d \o t : d \in Concats(tokens, k - 1), t \in tokens \cup { <<>> } }

\* documents of elements, text, comments and a two-byte character
StructureTokens ==
    { <<"<", "a", ">">>, <<"<", "/", "a", ">">>, <<"<", "/", "b", ">">>,
      <<"x">>, <<"<", "!", "-", "-">>, <<"-", "-", ">">>, <<Wide, Cont>> }

\* documents with style elements
StyleBlock ==
    <<"<", "s", "t", "y", "l", "e", ">",
      "h", "1", "{", "f", "o", "n", "t", "-", "s", "i", "z", "e", ":",
      "1", "4", "p", "x", ";", "}",
      "<", "/", "s", "t", "y", "l", "e", ">">>
StyleTokens ==
    { <<"<", "a", ">">>, <<"<", "/", "a", ">">>,
      <<"<", "s", "t", "y", "l", "e", ">">>, <<"<", "/", "s", "t", "y", "l", "e", ">">>,
      <<"a", "{">>, StyleBlock,
      <<"<", "s", "t", "y", "l", "e", ">", "a", "{", "}",
        "<", "/", "s", "t", "y", "l", "e", ">">> }

\* opening tags <i ...> with attributes
AttrTokens ==
    { <<" ", "d">>, <<" ", "e", "=", "'", "'">>, <<" ", "d", "=", "\"", "v", "\"">>,
      <<" ">>, <<">">>, <<"/", ">">>, <<"<", "/", "i", ">">> }

\* the comment of the specification's example
NoteDocument == <<"<", "!", "-", "-", " ", "n", "o", "t", "e", " ", "-", "-", ">">>

Documents ==
    { NoteDocument } \cup Concats(StructureTokens, MaxTokens)
    \cup Concats(StyleTokens, MaxTokens)
    \cup { <<"<", "i">> \o d : d \in Concats(AttrTokens, MaxTokens) }

\* style sheets a{c:<value><end>, and selector lists
ValueTokens ==
    { <<"#", "f", "f", "0", "0">>, <<"f", "f">>, <<"f">>, <<"+", "a">>,
      <<"1", ".", "5">>, <<"p", "x">>, <<"P", "X">>, <<"e", "m">>,
      <<"r", "e", "d">>, <<Wide, Cont>> }
ValueEnds == { <<>>, <<";">>, <<";", "}">>, <<" ", ";", " ", "}", " ">>, <<"}">> }
SelectorTokens ==
    { <<"a">>, <<".", "b">>, <<"#", "c">>, <<",">>, <<" ">>, <<"{", "}">> }
StyleSheets ==
    { <<"a", "{", "c", ":">> \o v \o e :
        v \in Concats(ValueTokens, MaxValueTokens), e \in ValueEnds }
    \cup Concats(SelectorTokens, MaxTokens)

\* --------------------------------------------------------------- the state

VARIABLES
    parser,        \* which Parser is running: "none", "html" or "css"
    input,         \* Parser.input
    pos,           \* Parser.pos
    pc,            \* "idle"; "nodes" (head of a parse_nodes loop of the markup
                   \* parser); the style parser's pc; "done"; "panic"
    stack,         \* the calls of parse_nodes in progress, outermost first:
                   \* nodes is the call's Vec, tag_name and attrs are the
                   \* locals of the parse_element that made the call (unused
                   \* in stack[1], the call made by html::parse)
    root,          \* DocumentData.root
    stylesheets,   \* DocumentData.stylesheets
    rules, selectors, declarations, name,   \* the style parser's locals
    seen,          \* history: the malformed constructs the parsers came upon
    first,         \* history: the tree that was printed, before a second parse
    sheets0        \* history: stylesheets when load_document was called

vars == << parser, input, pos, pc, stack, root, stylesheets,
           rules, selectors, declarations, name, seen, first, sheets0 >>

css_vars == << rules, selectors, declarations, name >>
dom_vars == << stack, root, stylesheets, first, sheets0 >>

\* DocumentData::new(); no parser yet
Init ==
    /\ parser = "none"
    /\ input = <<>>
    /\ pos = 0
    /\ pc = "idle"
    /\ stack = <<>>
    /\ root = None
    /\ stylesheets = <<>>
    /\ rules = <<>>
    /\ selectors = <<>>
    /\ declarations = <<>>
    /\ name = <<>>
    /\ seen = {}
    /\ first = None
    /\ sheets0 = <<>>

\* --------------------------------------------- what makes an input malformed

\* no "-->" at or after offset p
NoTerminator(str, p) ==
    ~ \E i \in p..(Len(str) - 3) : SubSeq(str, i + 1, i + 3) = <<"-", "-", ">">>

\* the end of the longest run from offset p of characters of the set `class`
RunEnd(str, p, class) ==
    CHOOSE e \in p..Len(str) :
        /\ \A i \in (p + 1)..e : str[i] \in class
        /\ e = Len(str) \/ str[e + 1] \notin class
RunFrom(str, p, class) == SubSeq(str, p + 1, RunEnd(str, p, class))

AlphaNum == Range(Lower) \cup Range(Upper) \cup Range(Digit)
HexDigits == Range(Digit) \cup { Lower[i] : i \in 1..6 } \cup { Upper[i] : i \in 1..6 }

\* at offset p: "</" and a name other than tag
MismatchedClose(str, p, tag) ==
    /\ p + 2 <= Len(str)
    /\ SubSeq(str, p + 1, p + 2) = <<"<", "/">>
    /\ RunFrom(str, p + 2, AlphaNum) # tag

\* at offset p: a number, then a unit that is not px in any case
BadUnit(str, p) ==
    /\ p < Len(str)
    /\ str[p + 1] \in Range(Digit)
    /\ LET u == RunFrom(str, RunEnd(str, p, Range(Digit) \cup {"."}),
                        AlphaNum \cup {"-"})
       IN  u \notin { <<a, b>> : a \in {"p", "P"}, b \in {"x", "X"} }

\* at offset p: '#' and an odd number of hex digits
OddHex(str, p) ==
    /\ p < Len(str)
    /\ str[p + 1] = "#"
    /\ Len(RunFrom(str, p + 1, HexDigits)) % 2 = 1

\* -------------------------------------------------------------- the actions

Frame(tag_name, attrs) == [tag_name |-> tag_name, attrs |-> attrs, nodes |-> <<>>]
push(stk, node) == [stk EXCEPT ![Len(stk)].nodes = Append(@, node)]

\* DocumentData::load_document up to html::parse's call of parse_nodes
LoadDocument(document) ==
    /\ parser = "none" /\ pc = "idle"
    /\ parser' = "html"
    /\ input' = document
    /\ pos' = 0
    /\ pc' = "nodes"
    /\ stack' = << Frame(<<>>, AttrMapDefault) >>
    /\ sheets0' = stylesheets
    /\ UNCHANGED << root, stylesheets, css_vars, seen, first >>

AtHead == parser = "html" /\ pc = "nodes"
LoopHead == parse_nodes_head(input, pos)
Top == stack[Len(stack)]

\* nodes.push(self.parse_node()), or the panic of parse_node
NodeParsed(r) ==
    /\ pos' = r.pos
    /\ pc' = IF r.ok THEN "nodes" ELSE "panic"
    /\ stack' = IF r.ok THEN push(stack, r.val) ELSE stack

\* parse_node -> parse_text
ParseTextAt(h) ==
    /\ h.kind = "text"
    /\ NodeParsed(parse_text(input, h.pos))
ParseText ==
    /\ AtHead
    /\ ParseTextAt(LoopHead)
    /\ UNCHANGED << parser, input, root, stylesheets, css_vars, seen, first, sheets0 >>

\* parse_node -> parse_comment
ParseCommentAt(h) ==
    /\ h.kind = "comment"
    /\ NodeParsed(parse_comment(input, h.pos))
    /\ seen' = seen \cup IF NoTerminator(input, h.pos + 4)
                         THEN {"unterminated comment"} ELSE {}
ParseComment ==
    /\ AtHead
    /\ ParseCommentAt(LoopHead)
    /\ UNCHANGED << parser, input, root, stylesheets, css_vars, first, sheets0 >>

\* parse_node -> parse_element, up to its call of parse_nodes; a
\* self-closing element returns and is pushed
ElementOpened(r) ==
    /\ pos' = r.pos
    /\ pc' = IF r.ok THEN "nodes" ELSE "panic"
    /\ stack' = IF ~r.ok THEN stack
                ELSE IF r.val.self_closing
                THEN push(stack, element(r.val.tag_name, r.val.attrs, <<>>))
                ELSE Append(stack, Frame(r.val.tag_name, r.val.attrs))
OpenElementAt(h) ==
    /\ h.kind = "element"
    /\ ElementOpened(parse_element_open(input, h.pos))
OpenElement ==
    /\ AtHead
    /\ OpenElementAt(LoopHead)
    /\ UNCHANGED << parser, input, root, stylesheets, css_vars, seen, first, sheets0 >>

\* an inner parse_nodes breaks and returns to parse_element, which returns
\* the element to the parse_nodes that called it
ElementClosed(r) ==
    /\ pos' = r.pos
    /\ pc' = IF r.ok THEN "nodes" ELSE "panic"
    /\ stylesheets' = r.stylesheets
    /\ stack' = IF r.ok
                THEN push(SubSeq(stack, 1, Len(stack) - 1), r.val)
                ELSE stack
CloseElementAt(h) ==
    /\ h.kind = "break"
    /\ ElementClosed(parse_element_close(input, h.pos, Top.tag_name, Top.attrs,
                                         Top.nodes, stylesheets))
    /\ seen' = seen \cup IF MismatchedClose(input, h.pos, Top.tag_name)
                         THEN {"mismatched closing tag"} ELSE {}
CloseElement ==
    /\ AtHead
    /\ Len(stack) > 1
    /\ CloseElementAt(LoopHead)
    /\ UNCHANGED << parser, input, root, css_vars, first, sheets0 >>

\* the outermost parse_nodes breaks: html::parse returns and load_document
\* sets root
ReturnRootAt(h) ==
    /\ h.kind = "break"
    /\ pos' = h.pos
    /\ pc' = "done"
    /\ root' = Some(parse_result(stack[1].nodes))
    /\ stack' = <<>>
ReturnRoot ==
    /\ AtHead
    /\ Len(stack) = 1
    /\ ReturnRootAt(LoopHead)
    /\ UNCHANGED << parser, input, stylesheets, css_vars, seen, first, sheets0 >>

RECURSIVE attr_names(_)
attr_names(node) ==
    IF node.type # "ElementNode" THEN {}
    ELSE DOMAIN node.attributes
         \cup UNION { attr_names(node.child_nodes[i]) : i \in DOMAIN node.child_nodes }

\* the orders in which a HashMap holding the keys S may iterate
Orders(S) ==
    { o \in [1..Cardinality(S) -> S] : \A i, j \in DOMAIN o : o[i] = o[j] => i = j }

\* the caller prints the tree (root.to_string()) and loads the printed text
\* into the same context: load_document up to html::parse's call of parse_nodes
PrintAndReload(order) ==
    /\ parser = "html" /\ pc = "done" /\ ~first.some
    /\ input' = to_string(root.v, order)
    /\ pos' = 0
    /\ pc' = "nodes"
    /\ stack' = << Frame(<<>>, AttrMapDefault) >>
    /\ first' = Some([tree |-> root.v, whole |-> pos = Len(input)])
    /\ sheets0' = stylesheets
    /\ UNCHANGED << parser, root, stylesheets, css_vars, seen >>

\* ------------------------------------------------------------ style parser

CssState ==
    [input |-> input, pos |-> pos, pc |-> pc, rules |-> rules,
     selectors |-> selectors, declarations |-> declarations, name |-> name]

CssApply(c) ==
    /\ pos' = c.pos
    /\ pc' = c.pc
    /\ rules' = c.rules
    /\ selectors' = c.selectors
    /\ declarations' = c.declarations
    /\ name' = c.name
    /\ UNCHANGED << parser, input, dom_vars >>

\* main.rs, fn parse: the Parser is built
CssParse(sheet) ==
    /\ parser = "none" /\ pc = "idle"
    /\ parser' = "css"
    /\ input' = sheet
    /\ pos' = 0
    /\ pc' = "rules"
    /\ UNCHANGED << dom_vars, css_vars, seen >>

ParseRules ==
    /\ parser = "css" /\ pc = "rules"
    /\ CssApply(parse_rules_step(CssState))
    /\ UNCHANGED seen

ParseSelectors ==
    /\ parser = "css" /\ pc = "selectors"
    /\ CssApply(parse_selectors_step(CssState))
    /\ UNCHANGED seen

ParseDeclarationsOpen ==
    /\ parser = "css" /\ pc = "block"
    /\ CssApply(parse_declarations_open(CssState))
    /\ UNCHANGED seen

ParseDeclarations ==
    /\ parser = "css" /\ pc = "decl"
    /\ CssApply(parse_declarations_step(CssState))
    /\ UNCHANGED seen

ParseDeclarationValue ==
    /\ parser = "css" /\ pc = "value"
    /\ CssApply(parse_value_step(CssState))
    /\ seen' = seen \cup (IF BadUnit(input, pos) THEN {"unit"} ELSE {})
                    \cup (IF OddHex(input, pos) THEN {"odd hex"} ELSE {})

ParseDeclarationEnd ==
    /\ parser = "css" /\ pc = "decl_end"
    /\ CssApply(parse_declaration_end(CssState))
    /\ UNCHANGED seen

Idle == parser = "none" /\ pc = "idle"

Load == Idle /\ \E document \in Documents : LoadDocument(document)
Reload ==
    /\ parser = "html" /\ pc = "done" /\ ~first.some
    /\ \E order \in Orders(attr_names(root.v)) : PrintAndReload(order)
StyleMain == Idle /\ \E sheet \in StyleSheets : CssParse(sheet)

Next ==
    \/ Load
    \/ ParseText
    \/ ParseComment
    \/ OpenElement
    \/ CloseElement
    \/ ReturnRoot
    \/ Reload
    \/ StyleMain
    \/ ParseRules
    \/ ParseSelectors
    \/ ParseDeclarationsOpen
    \/ ParseDeclarations
    \/ ParseDeclarationValue
    \/ ParseDeclarationEnd

Spec == Init /\ [][Next]_vars

\* --------------------------------------------------------------- properties

IsPrefix(s, t) == Len(s) <= Len(t) /\ SubSeq(t, 1, Len(s)) = s
Occurs(pat, s) == \E i \in 0..(Len(s) - Len(pat)) : SubSeq(s, i + 1, i + Len(pat)) = pat
LastOf(s) == s[Len(s)]
IsElement(node, tag) == node.type = "ElementNode" /\ node.tag_name = tag

\* C1: when html::parse returns, a top-level sequence of exactly one node is
\* returned as that node; any other sequence (none, two or more) is returned
\* as an element "html" with no attributes and these nodes, in order, as its
\* children.
C1_SingleRootOrWrapper ==
    [][ (AtHead /\ pc' = "done") =>
          IF Len(stack[1].nodes) = 1
          THEN root' = [some |-> TRUE, v |-> stack[1].nodes[1]]
          ELSE /\ root'.some
               /\ root'.v.type = "ElementNode"
               /\ root'.v.tag_name = <<"h", "t", "m", "l">>
               /\ DOMAIN root'.v.attributes = {}
               /\ root'.v.child_nodes = stack[1].nodes ]_vars

\* two top-level nodes came back wrapped
C1_Witness ==
    /\ parser = "html" /\ pc = "done" /\ ~first.some
    /\ IsElement(root.v, HtmlTag)
    /\ Len(root.v.child_nodes) = 2
    /\ root.v.child_nodes[1].type = "ElementNode"
    /\ root.v.child_nodes[2].type = "TextNode"

\* the texts of the style elements of a tree whose first child is a text
\* node, in the order in which the elements are closed
RECURSIVE StyleTexts(_)
StyleTexts(node) ==
    IF node.type # "ElementNode" THEN <<>>
    ELSE LET inner[i \in 0..Len(node.child_nodes)] ==
                 IF i = 0 THEN <<>>
                 ELSE inner[i - 1] \o StyleTexts(node.child_nodes[i])
         IN  inner[Len(node.child_nodes)]
             \o (IF /\ node.tag_name = <<"s", "t", "y", "l", "e">>
                    /\ node.child_nodes # <<>>
                    /\ node.child_nodes[1].type = "TextNode"
                 THEN << node.child_nodes[1].text >>
                 ELSE <<>>)

ExampleStyle ==
    <<"h", "1", "{", "f", "o", "n", "t", "-", "s", "i", "z", "e", ":",
      "1", "4", "p", "x", ";", "}">>

GainedSheets(texts) ==
    /\ Len(stylesheets) = Len(sheets0) + Len(texts)
    /\ \A i \in DOMAIN texts :
         /\ css_parse(texts[i]).ok
         /\ stylesheets[Len(sheets0) + i] = css_parse(texts[i]).val
         /\ RunFrom(texts[i], 0, Range(ExampleStyle)) = ExampleStyle
              => Len(stylesheets[Len(sheets0) + i].rules) = 1

\* C2: the collection only grows at its end, and after a successful markup
\* parse it has gained exactly one sheet for each style element of the tree
\* whose first child is a text node, at any depth, in the order in which
\* these elements are closed; the text h1{font-size:14px;} gives a sheet of
\* one rule.
C2_StyleSheetsGained ==
    /\ IsPrefix(sheets0, stylesheets)
    /\ (parser = "html" /\ pc = "done") => GainedSheets(StyleTexts(root.v))

\* two style elements added two sheets, in the order of their closing tags,
\* behind the sheets of an earlier parse
C2_Witness ==
    /\ parser = "html" /\ pc = "done"
    /\ IsElement(root.v, HtmlTag)
    /\ Len(root.v.child_nodes) = 2
    /\ IsElement(root.v.child_nodes[1], StyleTag)
    /\ IsElement(root.v.child_nodes[2], StyleTag)
    /\ Len(sheets0) = 2 /\ Len(stylesheets) = 4
    /\ Len(stylesheets[3].rules[1].declarations) = 1
    /\ Len(stylesheets[4].rules[1].declarations) = 0

\* C3: a parse that came upon an unterminated comment, a closing tag with
\* another name than the opening tag, a length whose unit is not px or a hex
\* color with an odd number of digits does not return; an aborted
\* load_document leaves the context's root as it was.
C3_MalformedAborts ==
    /\ pc = "done" => seen = {}
    /\ (parser = "html" /\ pc = "panic") =>
         root = IF first.some THEN [some |-> TRUE, v |-> first.v.tree] ELSE None

C3_Witness ==
    /\ parser = "css" /\ pc = "panic" /\ seen = {"unit"}

\* C6 as amended: the comment of <!-- note --> has the text " note ", the
\* spaces included; the text of every comment parse_comment returns is what
\* stands between "<!--" and the first "-->" after it, so holds no "-->", and
\* the cursor ends right after that "-->".
C6_CommentText ==
    [][ (AtHead /\ LoopHead.kind = "comment" /\ pc' = "nodes") =>
          /\ LastOf(stack'[Len(stack')].nodes).type = "CommentNode"
          /\ pos' >= LoopHead.pos + 7
          /\ SubSeq(input, pos' - 2, pos') = <<"-", "-", ">">>
          /\ LastOf(stack'[Len(stack')].nodes).text
               = SubSeq(input, LoopHead.pos + 5, pos' - 3)
          /\ ~Occurs(<<"-", "-", ">">>, SubSeq(input, LoopHead.pos + 5, pos' - 1))
          /\ input = NoteDocument =>
               LastOf(stack'[Len(stack')].nodes).text = <<" ", "n", "o", "t", "e", " ">>
      ]_vars

C6_Witness ==
    /\ parser = "html" /\ pc = "done" /\ input = NoteDocument
    /\ root = Some(comment(<<" ", "n", "o", "t", "e", " ">>))

\* C6 as claimed: the comment of <!-- note --> has the text "note".
C6_NoteTrimmed ==
    (parser = "html" /\ pc = "done" /\ input = NoteDocument) =>
        root = Some(comment(<<"n", "o", "t", "e">>))

\* the kinds, tag names, child order and nesting of a tree
RECURSIVE Shape(_)
Shape(node) ==
    IF node.type = "ElementNode"
    THEN [type |-> node.type, tag_name |-> node.tag_name,
          child_nodes |-> [i \in DOMAIN node.child_nodes |-> Shape(node.child_nodes[i])]]
    ELSE [type |-> node.type]

\* C4: when an attribute-free document with balanced, matching tags was
\* parsed to its end and its tree printed, parsing the printed text succeeds
\* and gives a tree of the same kinds, tag names, child order and nesting.
C4_RoundTrip ==
    ( /\ parser = "html" /\ first.some /\ first.v.whole
      /\ attr_names(first.v.tree) = {}
      /\ pc \in {"done", "panic"} )
    => (pc = "done" /\ Shape(root.v) = Shape(first.v.tree))

Whitespace == {" ", NL}

\* The attribute list written at offset p, read by the grammar of the
\* specification: items `name`, `name="value"`, `name='value'`, each set off
\* by white space, up to "/>" or ">".  kind is "list" for such a list (names:
\* the names written; self_closing: it ends in "/>"), "open" when the input
\* ends inside a quoted value, "other" otherwise.
RECURSIVE WrittenAttrs(_, _, _)
WrittenAttrs(str, p, names) ==
    LET q == RunEnd(str, p, Whitespace)
        e == RunEnd(str, q, AlphaNum)
        other == [kind |-> "other", names |-> names, self_closing |-> FALSE]
        item(after) ==
            IF after < Len(str) /\ str[after + 1] \in Whitespace \cup {">", "/"}
            THEN WrittenAttrs(str, after, names \cup {SubSeq(str, q + 1, e)})
            ELSE other
    IN  IF q >= Len(str) THEN other
        ELSE IF str[q + 1] = ">"
        THEN [kind |-> "list", names |-> names, self_closing |-> FALSE]
        ELSE IF str[q + 1] = "/"
        THEN IF q + 1 < Len(str) /\ str[q + 2] = ">"
             THEN [kind |-> "list", names |-> names, self_closing |-> TRUE]
             ELSE other
        ELSE IF e = q \/ (q = p /\ names # {}) THEN other
        ELSE IF e < Len(str) /\ str[e + 1] = "="
        THEN IF e + 1 < Len(str) /\ str[e + 2] \in {"\"", "'"}
             THEN IF RunEnd(str, e + 2, Range(str) \ {str[e + 2]}) < Len(str)
                  THEN item(RunEnd(str, e + 2, Range(str) \ {str[e + 2]}) + 1)
                  ELSE [kind |-> "open", names |-> names, self_closing |-> FALSE]
             ELSE other
        ELSE item(e)

\* the attribute list of the opening tag at offset p
Written(str, p) == WrittenAttrs(str, RunEnd(str, p + 1, AlphaNum), {})

\* C5: parse_element takes every opening tag whose attribute list is of the
\* written grammar; the keys of its attribute map are the names written, and
\* a list ending in "/>" gives a self-closing element without children.
C5_AttributesAccepted ==
    [][ (AtHead /\ LoopHead.kind = "element"
           /\ Written(input, LoopHead.pos).kind = "list") =>
          /\ pc' = "nodes"
          /\ IF Written(input, LoopHead.pos).self_closing
             THEN /\ Len(stack') = Len(stack)
                  /\ LastOf(stack'[Len(stack')].nodes).child_nodes = <<>>
                  /\ DOMAIN LastOf(stack'[Len(stack')].nodes).attributes
                       = Written(input, LoopHead.pos).names
             ELSE /\ Len(stack') = Len(stack) + 1
                  /\ DOMAIN stack'[Len(stack')].attrs = Written(input, LoopHead.pos).names
      ]_vars

\* C7: a step taken with the end of the input reached inside a declaration
\* block or inside an element, or taken on a comment without terminator or
\* on an opening tag whose quoted value is not closed, is an abort.
C7_EndOfInputAborts ==
    [][ ( \/ parser = "css" /\ pc = "decl" /\ eof(input, pos)
          \/ AtHead /\ Len(stack) > 1 /\ eof(input, LoopHead.pos)
          \/ AtHead /\ LoopHead.kind = "comment" /\ NoTerminator(input, LoopHead.pos + 4)
          \/ AtHead /\ LoopHead.kind = "element"
                    /\ Written(input, LoopHead.pos).kind = "open" )
        => pc' = "panic" ]_vars

\* C8: closing a style element that has no children, or whose first child is
\* not a text node, and whose closing tag is there, does not abort, leaves
\* the collection as it is and returns the element with its children.
C8_StyleWithoutText ==
    [][ ( /\ AtHead /\ Len(stack) > 1 /\ LoopHead.kind = "break"
          /\ Top.tag_name = StyleTag
          /\ (Top.nodes = <<>> \/ Top.nodes[1].type # "TextNode")
          /\ closing_tag(input, LoopHead.pos, StyleTag).ok )
        => /\ pc' = "nodes"
           /\ stylesheets' = stylesheets
           /\ Len(stack') = Len(stack) - 1
           /\ LastOf(stack'[Len(stack')].nodes) = element(StyleTag, Top.attrs, Top.nodes)
      ]_vars

\* C9: html::parse returns only with the cursor at the end of the input.
C9_ReturnsAtEnd ==
    (parser = "html" /\ pc = "done") => pos = Len(input)

\* C10: the cursor of either parser stays within the input, on a character
\* boundary.
C10_CursorOnBoundary ==
    /\ pos \in 0..Len(input)
    /\ is_char_boundary(input, pos)

=============================================================================
